---- MODULE Spec2Model ----
(***************************************************************************)
(* cloud-scanner-cli/src/impact_provider.rs                                *)
(*                                                                         *)
(* ImpactsSummary::new, the reduction of an EstimatedInventory into one    *)
(* ImpactsSummary, stepped one loop iteration at a time, and the           *)
(* ImpactProvider::get_impacts contract.                                   *)
(*                                                                         *)
(* f64 values are modelled with their 53-bit significand: a non-negative   *)
(* integer-valued double is the pair <<hi, lo>> standing for               *)
(* hi * 2^27 + lo, and an addition rounds its exact result to 53           *)
(* significant bits, ties to even, as IEEE 754 does.                       *)
(***************************************************************************)
EXTENDS Integers, Sequences, FiniteSets

VARIABLES
    args,       \* the arguments of one ImpactsSummary::new call
    pc,         \* position of the call: "entry", "loop", "done"
    resources,  \* the part of the inventory the for loop has not consumed
    summary,    \* the local `summary` of ImpactsSummary::new
    returned,   \* the value handed back to the caller
    log,        \* the debug! notes emitted so far
    p_args,     \* the arguments of one get_impacts call
    p_pc,       \* position of the provider call
    p_todo,     \* resources of the inventory not yet estimated
    p_pairs,    \* pairings the provider has built so far
    p_result    \* Result<EstimatedInventory> of the provider call

vars == <<args, pc, resources, summary, returned, log,
          p_args, p_pc, p_todo, p_pairs, p_result>>

aggVars == <<args, pc, resources, summary, returned, log>>
provVars == <<p_args, p_pc, p_todo, p_pairs, p_result>>

\* Longest inventory explored.
MaxLen == 3

----------------------------------------------------------------------------
(* f64 *)

\* Width of one limb of the two-limb representation.
Limb == 2^27

\* An f64 has 53 significant bits: hi < HiFull means the value is below 2^53.
HiFull == 2^26

F64(n) == <<0, n>>

F64Zero == <<0, 0>>

\* 2^53, the first double whose successor is 2 away.
F64Two53 == <<HiFull, 0>>

RECURSIVE F64Exp(_)
\* Number of low bits an integer with high limb hi loses in a double.
F64Exp(hi) == IF hi < HiFull THEN 0 ELSE 1 + F64Exp(hi \div 2)

\* Round the exact integer hi * Limb + lo to 53 significant bits, ties to even.
F64Round(hi, lo) ==
    LET e    == F64Exp(hi)
        ulp  == 2^e
        q    == lo \div ulp
        r    == lo % ulp
        half == ulp \div 2
        up   == r > half \/ (r = half /\ q % 2 = 1)
        lo2  == q * ulp + ulp
    IN  IF e = 0 \/ r = 0 THEN <<hi, lo>>
        ELSE IF ~up THEN <<hi, q * ulp>>
        ELSE IF lo2 = Limb THEN <<hi + 1, 0>>
        ELSE <<hi, lo2>>

\* a + b on f64 (the += of lines 99-104).
F64Add(a, b) ==
    LET lo == a[2] + b[2]
    IN  F64Round(a[1] + b[1] + (lo \div Limb), lo % Limb)

----------------------------------------------------------------------------
(* Data model *)

None == <<>>
Some(v) == <<v>>
IsSome(o) == o # <<>>
Unwrap(o) == o[1]

Metrics == {"adp_manufacture_kgsbeq", "adp_use_kgsbeq",
            "pe_manufacture_megajoules", "pe_use_megajoules",
            "gwp_manufacture_kgco2eq", "gwp_use_kgco2eq"}

ImpactsValues(am, au, pm, pu, gm, gu, raw) ==
    [adp_manufacture_kgsbeq    |-> am,
     adp_use_kgsbeq            |-> au,
     pe_manufacture_megajoules |-> pm,
     pe_use_megajoules         |-> pu,
     gwp_manufacture_kgco2eq   |-> gm,
     gwp_use_kgco2eq           |-> gu,
     raw_data                  |-> raw]

CloudResourceWithImpacts(res, iv, hours) ==
    [cloud_resource         |-> res,
     impacts_values         |-> iv,
     impacts_duration_hours |-> hours]

\* The pairings inventories are built from: complete impact records (small,
\* zero, and at the edge of the f64 significand), and not-assessed resources,
\* quoted over two different durations.
Pairings ==
    { CloudResourceWithImpacts("r1",
          Some(ImpactsValues(F64(1), F64(2), F64(3), F64(4), F64(5), F64(6), None)), 24),
      CloudResourceWithImpacts("r2",
          Some(ImpactsValues(F64Zero, F64Zero, F64Zero, F64Zero, F64Zero, F64Zero, None)), 24),
      CloudResourceWithImpacts("r3", None, 24),
      CloudResourceWithImpacts("r4", None, 1),
      CloudResourceWithImpacts("r5",
          Some(ImpactsValues(F64Two53, F64Zero, F64Two53, F64(1), F64Zero, F64Two53,
                             Some("raw"))), 24),
      CloudResourceWithImpacts("r6",
          Some(ImpactsValues(F64(1), F64Zero, F64(2), F64Zero, F64(3), F64(1), None)), 1) }

SeqsUpTo(S, n) == UNION { [1..k -> S] : k \in 0..n }

Regions == {"eu-west-1", "us-east-1"}
Countries == {"FRA", "USA"}
Durations == {24, 720}

----------------------------------------------------------------------------
(* ImpactsSummary::new *)

NewSummaryDurationFromPairing(aws_region, country, rs, duration_of_use_hours) ==
    [number_of_resources_total        |-> Len(rs),
     number_of_resources_assessed     |-> 0,
     number_of_resources_not_assessed |-> 0,
     aws_region                       |-> aws_region,
     country                          |-> country,
     duration_of_use_hours            |-> 
         IF rs = <<>> THEN duration_of_use_hours ELSE rs[1].impacts_duration_hours,
     adp_manufacture_kgsbeq           |-> F64Zero,
     adp_use_kgsbeq                   |-> F64Zero,
     pe_manufacture_megajoules        |-> F64Zero,
     pe_use_megajoules                |-> F64Zero,
     gwp_manufacture_kgco2eq          |-> F64Zero,
     gwp_use_kgco2eq                  |-> F64Zero]

NewSummaryDurationZero(aws_region, country, rs, duration_of_use_hours) ==
    [number_of_resources_total        |-> Len(rs),
     number_of_resources_assessed     |-> 0,
     number_of_resources_not_assessed |-> 0,
     aws_region                       |-> aws_region,
     country                          |-> country,
     duration_of_use_hours            |-> 0,
     adp_manufacture_kgsbeq           |-> F64Zero,
     adp_use_kgsbeq                   |-> F64Zero,
     pe_manufacture_megajoules        |-> F64Zero,
     pe_use_megajoules                |-> F64Zero,
     gwp_manufacture_kgco2eq          |-> F64Zero,
     gwp_use_kgco2eq                  |-> F64Zero]

\* let mut summary = ImpactsSummary { ... } (lines 80-93).
NewSummary(aws_region, country, rs, duration_of_use_hours) ==
    [number_of_resources_total        |-> Len(rs),
     number_of_resources_assessed     |-> 0,
     number_of_resources_not_assessed |-> 0,
     aws_region                       |-> aws_region,
     country                          |-> country,
     duration_of_use_hours            |-> duration_of_use_hours,
     adp_manufacture_kgsbeq           |-> F64Zero,
     adp_use_kgsbeq                   |-> F64Zero,
     pe_manufacture_megajoules        |-> F64Zero,
     pe_use_megajoules                |-> F64Zero,
     gwp_manufacture_kgco2eq          |-> F64Zero,
     gwp_use_kgco2eq                  |-> F64Zero]

AddImpactsCoupled(s, impacts) ==
    [s EXCEPT
        !.number_of_resources_assessed = @ + 1,
        !.adp_manufacture_kgsbeq    = F64Add(@, impacts.adp_manufacture_kgsbeq),
        !.adp_use_kgsbeq            = F64Add(@, impacts.adp_manufacture_kgsbeq),
        !.pe_manufacture_megajoules = F64Add(@, impacts.pe_manufacture_megajoules),
        !.pe_use_megajoules         = F64Add(@, impacts.pe_use_megajoules),
        !.gwp_manufacture_kgco2eq   = F64Add(@, impacts.gwp_manufacture_kgco2eq),
        !.gwp_use_kgco2eq           = F64Add(@, impacts.gwp_use_kgco2eq)]

AddImpactsAssign(s, impacts) ==
    [s EXCEPT
        !.number_of_resources_assessed = @ + 1,
        !.adp_manufacture_kgsbeq    = impacts.adp_manufacture_kgsbeq,
        !.adp_use_kgsbeq            = F64Add(@, impacts.adp_use_kgsbeq),
        !.pe_manufacture_megajoules = F64Add(@, impacts.pe_manufacture_megajoules),
        !.pe_use_megajoules         = F64Add(@, impacts.pe_use_megajoules),
        !.gwp_manufacture_kgco2eq   = F64Add(@, impacts.gwp_manufacture_kgco2eq),
        !.gwp_use_kgco2eq           = F64Add(@, impacts.gwp_use_kgco2eq)]

\* The Some(impacts) branch of the loop body (lines 98-104).
AddImpacts(s, impacts) ==
    [s EXCEPT
        !.number_of_resources_assessed = @ + 1,
        !.adp_manufacture_kgsbeq    = F64Add(@, impacts.adp_manufacture_kgsbeq),
        !.adp_use_kgsbeq            = F64Add(@, impacts.adp_use_kgsbeq),
        !.pe_manufacture_megajoules = F64Add(@, impacts.pe_manufacture_megajoules),
        !.pe_use_megajoules         = F64Add(@, impacts.pe_use_megajoules),
        !.gwp_manufacture_kgco2eq   = F64Add(@, impacts.gwp_manufacture_kgco2eq),
        !.gwp_use_kgco2eq           = F64Add(@, impacts.gwp_use_kgco2eq)]

SkipResourceBoth(s) ==
    [s EXCEPT !.number_of_resources_not_assessed = @ + 1,
              !.number_of_resources_assessed = @ + 1]

SkipResourceForgotten(s) == s

\* The else branch of the loop body (line 108).
SkipResource(s) ==
    [s EXCEPT !.number_of_resources_not_assessed = @ + 1]

EmitNotePrepended(notes, resource) == <<resource>> \o notes

\* debug!("Skipped counting resource: {:#?} ...", resource) (line 107).
EmitNote(notes, resource) == Append(notes, resource)

\* One iteration of `for resource in resources` (lines 95-110).
LoopBody(s, resource) ==
    IF IsSome(resource.impacts_values)
    THEN AddImpacts(s, Unwrap(resource.impacts_values))
    ELSE SkipResource(s)

RECURSIVE Fold(_, _)
Fold(s, rs) == IF rs = <<>> THEN s ELSE Fold(LoopBody(s, Head(rs)), Tail(rs))

\* ImpactsSummary::new as a function of its arguments (lines 72-112).
ImpactsSummaryNew(aws_region, country, rs, duration_of_use_hours) ==
    Fold(NewSummary(aws_region, country, rs, duration_of_use_hours), rs)

\* The value of `summary` before the struct expression of line 80 has run.
Unset == NewSummary("", "", <<>>, 0)

EstimatedInventory(rs) == [impacting_resources |-> rs]

\* A caller about to invoke ImpactsSummary::new with arbitrary arguments.
AggInit ==
    /\ args \in [aws_region             : Regions,
                 country                : Countries,
                 resources_with_impacts : { EstimatedInventory(rs) :
                                              rs \in SeqsUpTo(Pairings, MaxLen) },
                 duration_of_use_hours  : Durations]
    /\ pc = "entry"
    /\ resources = <<>>
    /\ summary = Unset
    /\ returned = Unset
    /\ log = <<>>

\* Lines 78-93: take the pairings out of the inventory, build the summary.
Enter ==
    /\ pc = "entry"
    /\ resources' = args.resources_with_impacts.impacting_resources
    /\ summary' = NewSummary(args.aws_region, args.country,
                             args.resources_with_impacts.impacting_resources,
                             args.duration_of_use_hours)
    /\ pc' = "loop"
    /\ UNCHANGED <<args, returned, log, provVars>>

\* Lines 97-104: the next pairing has impacts.
Assessed ==
    /\ pc = "loop"
    /\ resources # <<>>
    /\ IsSome(Head(resources).impacts_values)
    /\ summary' = AddImpacts(summary, Unwrap(Head(resources).impacts_values))
    /\ resources' = Tail(resources)
    /\ UNCHANGED <<args, pc, returned, log, provVars>>

\* Lines 105-109: the next pairing has no impacts.
Skipped ==
    /\ pc = "loop"
    /\ resources # <<>>
    /\ ~IsSome(Head(resources).impacts_values)
    /\ log' = EmitNote(log, Head(resources))
    /\ summary' = SkipResource(summary)
    /\ resources' = Tail(resources)
    /\ UNCHANGED <<args, pc, returned, provVars>>

\* Line 111: the loop is exhausted, the summary is returned.
Return ==
    /\ pc = "loop"
    /\ resources = <<>>
    /\ returned' = summary
    /\ pc' = "done"
    /\ UNCHANGED <<args, resources, summary, log, provVars>>

\* No ImpactsSummary::new call is in progress.
AggIdle ==
    /\ args = [aws_region |-> "", country |-> "",
               resources_with_impacts |-> EstimatedInventory(<<>>),
               duration_of_use_hours |-> 0]
    /\ pc = "idle"
    /\ resources = <<>>
    /\ summary = Unset
    /\ returned = Unset
    /\ log = <<>>

----------------------------------------------------------------------------
(* ImpactProvider::get_impacts: the trait declares the operation, a backend *)
(* implements it; its behaviour here is the contract of the design.         *)

ResourceIds == {"r1", "r2", "r3"}
UsageDurations == {-1, 0, 1, 24}

\* Impact records the backend may hold for a resource.
BackendImpacts ==
    { ImpactsValues(F64(1), F64(2), F64(3), F64(4), F64(5), F64(6), Some("raw")),
      ImpactsValues(F64Zero, F64Zero, F64Zero, F64Zero, F64Zero, F64Zero, Some("raw")) }

Ok(v) == [ok |-> TRUE, value |-> v]
Err == [ok |-> FALSE, value |-> <<>>]

DurationValidLax(hours) == hours >= 0

\* usage_duration_hours is a positive number of hours.
DurationValid(hours) == hours > 0

\* verbose asks for the backend's raw payload; it is omitted otherwise.
WithRawData(iv, verbose) == IF verbose THEN iv ELSE [iv EXCEPT !.raw_data = None]

PairingUnitDuration(res, iv, hours) == CloudResourceWithImpacts(res, iv, 1)

\* The pairing of one input resource with what the backend has for it.
Pairing(res, iv, hours) == CloudResourceWithImpacts(res, iv, hours)

ProvIdle ==
    /\ p_args = [inventory |-> <<>>, usage_duration_hours |-> 0, verbose |-> FALSE]
    /\ p_pc = "idle"
    /\ p_todo = <<>>
    /\ p_pairs = <<>>
    /\ p_result = Err

\* A caller about to invoke get_impacts with arbitrary arguments.
ProvInit ==
    /\ p_args \in [inventory            : SeqsUpTo(ResourceIds, MaxLen),
                   usage_duration_hours : UsageDurations,
                   verbose              : BOOLEAN]
    /\ p_pc = "entry"
    /\ p_todo = <<>>
    /\ p_pairs = <<>>
    /\ p_result = Err

\* A non-positive duration fails the whole call.
GetImpactsInvalidDuration ==
    /\ p_pc = "entry"
    /\ ~DurationValid(p_args.usage_duration_hours)
    /\ p_result' = Err
    /\ p_pc' = "done"
    /\ UNCHANGED <<p_args, p_todo, p_pairs, aggVars>>

GetImpactsStart ==
    /\ p_pc = "entry"
    /\ DurationValid(p_args.usage_duration_hours)
    /\ p_todo' = p_args.inventory
    /\ p_pc' = "estimating"
    /\ UNCHANGED <<p_args, p_pairs, p_result, aggVars>>

\* The backend has impact data for the next resource.
EstimateFound ==
    /\ p_pc = "estimating"
    /\ p_todo # <<>>
    /\ \E iv \in BackendImpacts :
          p_pairs' = Append(p_pairs,
                            Pairing(Head(p_todo),
                                    Some(WithRawData(iv, p_args.verbose)),
                                    p_args.usage_duration_hours))
    /\ p_todo' = Tail(p_todo)
    /\ UNCHANGED <<p_args, p_pc, p_result, aggVars>>

\* The backend has no matching data: the resource is kept, not assessed.
EstimateNotFound ==
    /\ p_pc = "estimating"
    /\ p_todo # <<>>
    /\ p_pairs' = Append(p_pairs,
                         Pairing(Head(p_todo), None, p_args.usage_duration_hours))
    /\ p_todo' = Tail(p_todo)
    /\ UNCHANGED <<p_args, p_pc, p_result, aggVars>>

\* The backend cannot be reached or parsed: the call fails as a whole.
BackendError ==
    /\ p_pc = "estimating"
    /\ p_result' = Err
    /\ p_pairs' = <<>>
    /\ p_pc' = "done"
    /\ UNCHANGED <<p_args, p_todo, aggVars>>

GetImpactsReturn ==
    /\ p_pc = "estimating"
    /\ p_todo = <<>>
    /\ p_result' = Ok(EstimatedInventory(p_pairs))
    /\ p_pc' = "done"
    /\ UNCHANGED <<p_args, p_todo, p_pairs, aggVars>>

----------------------------------------------------------------------------
(* Specifications *)

Init == AggInit /\ ProvIdle

Next == Enter \/ Assessed \/ Skipped \/ Return

Spec == Init /\ [][Next]_vars

InitProvider == AggIdle /\ ProvInit

NextProvider ==
    \/ GetImpactsInvalidDuration
    \/ GetImpactsStart
    \/ EstimateFound
    \/ EstimateNotFound
    \/ BackendError
    \/ GetImpactsReturn

SpecProvider == InitProvider /\ [][NextProvider]_vars

----------------------------------------------------------------------------
(* Properties of ImpactsSummary::new *)

\* The inventory the call was given.
Given == args.resources_with_impacts.impacting_resources

Counts == {"number_of_resources_total", "number_of_resources_assessed",
           "number_of_resources_not_assessed"}
Context == {"aws_region", "country", "duration_of_use_hours"}

HasImpacts(p) == IsSome(p.impacts_values)
HasNoImpacts(p) == ~IsSome(p.impacts_values)

\* The pairings the loop has consumed so far.
Consumed == SubSeq(Given, 1, Len(Given) - Len(resources))

RECURSIVE F64Sum(_, _)
\* acc + v1 + v2 + ... in f64, left to right.
F64Sum(acc, vs) == IF vs = <<>> THEN acc ELSE F64Sum(F64Add(acc, Head(vs)), Tail(vs))

\* The values of metric m over the assessed pairings of rs, in order.
MetricValues(m, rs) ==
    LET as == SelectSeq(rs, HasImpacts)
    IN  [i \in 1..Len(as) |-> Unwrap(as[i].impacts_values)[m]]

RECURSIVE ExactSum(_)
\* v1 + v2 + ... without rounding, as <<hi, lo>>.
ExactSum(vs) ==
    IF vs = <<>> THEN <<0, 0>>
    ELSE LET t  == ExactSum(Tail(vs))
             lo == Head(vs)[2] + t[2]
         IN  <<Head(vs)[1] + t[1] + (lo \div Limb), lo % Limb>>

\* No addition of metric m over rs can round: the exact sum is at most 2^53.
SumIsExact(m, rs) ==
    LET t == ExactSum(MetricValues(m, rs))
    IN  t[1] < HiFull \/ t = F64Two53

\* The reorderings of a sequence.
Reorderings(rs) ==
    LET n == Len(rs)
        bij == { f \in [1..n -> 1..n] : \A i, j \in 1..n : f[i] = f[j] => i = j }
    IN  { [i \in 1..n |-> rs[f[i]]] : f \in bij }

Summarize(rs) ==
    ImpactsSummaryNew(args.aws_region, args.country, rs, args.duration_of_use_hours)

\* C1: the summary returned has total == assessed + not_assessed, and total is
\* the length of the inventory.
CountInvariant ==
    pc = "done" =>
        /\ returned.number_of_resources_total =
               returned.number_of_resources_assessed
               + returned.number_of_resources_not_assessed
        /\ returned.number_of_resources_total = Len(Given)

CountInvariantWitness ==
    /\ pc = "done"
    /\ returned.number_of_resources_assessed >= 2
    /\ returned.number_of_resources_not_assessed >= 1

\* C2: each metric total of the summary returned is the f64 sum, in input
\* order and starting from 0.0, of that same metric over exactly the pairings
\* that have impacts, and is 0.0 when no pairing was assessed.
MetricTotals ==
    pc = "done" =>
        \A m \in Metrics :
            /\ returned[m] = F64Sum(F64Zero, MetricValues(m, Given))
            /\ returned.number_of_resources_assessed = 0 => returned[m] = F64Zero

MetricTotalsWitness ==
    /\ pc = "done"
    /\ returned.number_of_resources_assessed >= 2
    /\ returned.number_of_resources_not_assessed >= 1
    /\ returned.adp_use_kgsbeq = F64(2)
    /\ returned.gwp_use_kgco2eq = F64(7)

\* C3 as stated: every reordering of the inventory gives a summary equal in
\* every field.
OrderIndependence ==
    pc = "done" => \A rs \in Reorderings(Given) : Summarize(rs) = returned

\* C3 amended: every reordering gives the same counts, duration, region and
\* country, and the same total for each metric whose additions cannot round
\* (its exact sum over the inventory is at most 2^53).
OrderIndependenceWhenExact ==
    pc = "done" =>
        \A rs \in Reorderings(Given) :
            LET s == Summarize(rs)
            IN  /\ \A f \in Counts \cup Context : s[f] = returned[f]
                /\ \A m \in Metrics : SumIsExact(m, Given) => s[m] = returned[m]

OrderIndependenceWitness ==
    /\ pc = "done"
    /\ Len(Given) = 3
    /\ Given[1] # Given[2] /\ Given[2] # Given[3] /\ Given[1] # Given[3]
    /\ HasNoImpacts(Given[2])
    /\ \A m \in Metrics : SumIsExact(m, Given)
    /\ returned.gwp_use_kgco2eq = F64(7)

\* C4 as stated: for every split of the inventory into A followed by B, the
\* summary of the whole has counts and metric totals equal to the field-wise
\* sums of the summaries of A and of B.
Additivity ==
    pc = "done" =>
        \A k \in 0..Len(Given) :
            LET a == Summarize(SubSeq(Given, 1, k))
                b == Summarize(SubSeq(Given, k + 1, Len(Given)))
            IN  /\ \A f \in Counts : returned[f] = a[f] + b[f]
                /\ \A m \in Metrics : returned[m] = F64Add(a[m], b[m])

\* C4 amended: the counts always add; a metric total is the f64 sum of the two
\* parts' totals whenever its additions cannot round (its exact sum over the
\* whole inventory is at most 2^53).
AdditivityWhenExact ==
    pc = "done" =>
        \A k \in 0..Len(Given) :
            LET a == Summarize(SubSeq(Given, 1, k))
                b == Summarize(SubSeq(Given, k + 1, Len(Given)))
            IN  /\ \A f \in Counts : returned[f] = a[f] + b[f]
                /\ \A m \in Metrics :
                       SumIsExact(m, Given) => returned[m] = F64Add(a[m], b[m])

AdditivityWitness ==
    /\ pc = "done"
    /\ Len(Given) = 3
    /\ HasImpacts(Given[1]) /\ HasNoImpacts(Given[2]) /\ HasImpacts(Given[3])
    /\ \A m \in Metrics : SumIsExact(m, Given)
    /\ returned.adp_manufacture_kgsbeq = F64(2)

\* C5: the step that consumes a pairing without impacts leaves the six metric
\* totals and the assessed count as they were, adds exactly 1 to the
\* not-assessed count, and stays in the loop.
NonAssessedSkip ==
    [][ (pc = "loop" /\ resources # <<>> /\ HasNoImpacts(Head(resources))) =>
            /\ \A m \in Metrics : summary'[m] = summary[m]
            /\ summary'.number_of_resources_assessed =
                   summary.number_of_resources_assessed
            /\ summary'.number_of_resources_not_assessed =
                   summary.number_of_resources_not_assessed + 1
            /\ summary'.number_of_resources_total = summary.number_of_resources_total
            /\ pc' = "loop" ]_vars

NonAssessedSkipWitness ==
    /\ pc = "loop"
    /\ Len(Consumed) = 2
    /\ HasImpacts(Consumed[1]) /\ HasNoImpacts(Consumed[2])
    /\ summary.number_of_resources_not_assessed = 1
    /\ summary.adp_manufacture_kgsbeq = F64Two53

\* C6: region, country and duration of the summary returned are the call's
\* arguments, whatever impacts_duration_hours the pairings carry: replacing
\* every pairing's impacts_duration_hours by any other value gives the same
\* summary.
ContextVerbatim ==
    pc = "done" =>
        /\ returned.aws_region = args.aws_region
        /\ returned.country = args.country
        /\ returned.duration_of_use_hours = args.duration_of_use_hours
        /\ \A h \in {1, 24, 720} :
              Summarize([i \in 1..Len(Given) |->
                            [Given[i] EXCEPT !.impacts_duration_hours = h]]) = returned

ContextVerbatimWitness ==
    /\ pc = "done"
    /\ Len(Given) >= 2
    /\ Given[1].impacts_duration_hours # Given[2].impacts_duration_hours
    /\ \A i \in 1..Len(Given) :
          Given[i].impacts_duration_hours # returned.duration_of_use_hours

\* C7: an empty inventory is summarized to three counts of 0, six metric
\* totals of 0.0 and the duration given.
EmptyInventory ==
    (pc = "done" /\ Given = <<>>) =>
        /\ \A f \in Counts : returned[f] = 0
        /\ \A m \in Metrics : returned[m] = F64Zero
        /\ returned.duration_of_use_hours = args.duration_of_use_hours

EmptyInventoryWitness ==
    /\ pc = "done"
    /\ Given = <<>>
    /\ returned.duration_of_use_hours = 720

\* C10: the notes emitted so far are exactly the consumed pairings without
\* impacts, one each, in input order, and the summary returned is the one the
\* reduction alone determines.
NotesInInputOrder ==
    /\ pc \in {"loop", "done"} => log = SelectSeq(Consumed, HasNoImpacts)
    /\ pc = "entry" => log = <<>>
    /\ pc = "done" => returned = Summarize(Given)

NotesInInputOrderWitness ==
    /\ pc = "done"
    /\ Len(log) = 2
    /\ log[1] # log[2]
    /\ returned.number_of_resources_assessed = 1
    /\ HasImpacts(Given[2])

----------------------------------------------------------------------------
(* Properties of get_impacts *)

\* C8: a get_impacts call with usage_duration_hours <= 0 ends in an error and
\* yields no EstimatedInventory.
InvalidDurationFails ==
    (p_pc = "done" /\ p_args.usage_duration_hours <= 0) =>
        /\ ~p_result.ok
        /\ p_result.value = <<>>

InvalidDurationFailsWitness ==
    /\ p_pc = "done"
    /\ p_args.usage_duration_hours = 0
    /\ p_args.inventory # <<>>

\* C9: a successful get_impacts call returns one pairing per input resource,
\* in input order, each quoted over the requested duration; a resource without
\* impact data is a pairing without impacts in a successful result.
OnePairingPerResource ==
    (p_pc = "done" /\ p_result.ok) =>
        LET out == p_result.value.impacting_resources
        IN  /\ Len(out) = Len(p_args.inventory)
            /\ \A i \in 1..Len(out) :
                  /\ out[i].cloud_resource = p_args.inventory[i]
                  /\ out[i].impacts_duration_hours = p_args.usage_duration_hours

OnePairingPerResourceWitness ==
    /\ p_pc = "done"
    /\ p_result.ok
    /\ Len(p_args.inventory) = 3
    /\ p_args.usage_duration_hours = 24
    /\ \E i, j \in 1..3 :
          /\ HasNoImpacts(p_result.value.impacting_resources[i])
          /\ HasImpacts(p_result.value.impacting_resources[j])

====
